---- MODULE Spec2Model ----
(***************************************************************************)
(* Flight lookup relay: the search_flight tool (flight-info.py and its     *)
(* copy in flight-search.py) and the gradio_search_flight form handler     *)
(* (flight-search.py).                                                     *)
(*                                                                         *)
(* Python values are tagged records: [t |-> "null"], [t |-> "str", s],     *)
(* [t |-> "num", n], [t |-> "list", l], [t |-> "obj", o].  Texts are TLA+  *)
(* strings, so f-strings are concatenations and "contains" is a substring  *)
(* test.  Logging is the only side effect left out.                        *)
(***************************************************************************)
EXTENDS Integers, Sequences, FiniteSets, TLC

VARIABLES
    api_key,        \* os.getenv("FLIGHTAWARE_API_KEY") of the service process
    pc,             \* per search_flight call: "idle", "await_get", "done"
    request,        \* per call: request.flight_number
    sent,           \* per call: the GET handed to client.get (url, headers)
    gets,           \* per call: number of GETs issued
    response,       \* per call: the local `response`
    outcome,        \* per call: what the call returned or raised
    g_pc,           \* per gradio_search_flight call: "idle", "await_post", "done"
    flight_number,  \* per form call: the argument flight_number
    posts,          \* per form call: number of POSTs issued
    g_response,     \* per form call: what client.post produced
    g_result        \* per form call: the text returned, or the exception raised

svars == <<api_key, pc, request, sent, gets, response, outcome>>
gvars == <<g_pc, flight_number, posts, g_response, g_result>>
vars == <<api_key, pc, request, sent, gets, response, outcome,
          g_pc, flight_number, posts, g_response, g_result>>

(***************************************************************************)
(* Bounds                                                                  *)
(***************************************************************************)
NumCalls == 2
NumClients == 2

Calls == 1..NumCalls
Clients == 1..NumClients

(***************************************************************************)
(* Python values                                                           *)
(***************************************************************************)
JNull == [t |-> "null"]
JStr(s) == [t |-> "str", s |-> s]
JNum(n) == [t |-> "num", n |-> n]
JList(l) == [t |-> "list", l |-> l]
JObj(o) == [t |-> "obj", o |-> o]
EmptyObj == [t |-> "obj", o |-> [k \in {} |-> JNull]]
\* response.json() on a body that is not JSON raises instead of returning
Invalid == [t |-> "invalid"]

\* bool(v)
Truthy(v) ==
    CASE v.t = "null" -> FALSE
      [] v.t = "str" -> v.s # ""
      [] v.t = "num" -> v.n # 0
      [] v.t = "list" -> Len(v.l) > 0
      [] v.t = "obj" -> DOMAIN v.o # {}

\* sub in s, for texts
Contains(s, sub) ==
    \E i \in 1..(Len(s) - Len(sub) + 1) : SubSeq(s, i, i + Len(sub) - 1) = sub

Digit(d) == SubSeq("0123456789", d + 1, d + 1)

RECURSIVE IntToStr(_)
\* str(n) for n >= 0
IntToStr(n) == IF n < 10 THEN Digit(n) ELSE IntToStr(n \div 10) \o Digit(n % 10)

\* d.get(key, default) on a dict d
DictGet(d, key, default) == IF key \in DOMAIN d.o THEN d.o[key] ELSE default

(***************************************************************************)
(* Outcomes of a call                                                      *)
(***************************************************************************)
None == [kind |-> "none"]
Raise(exc) == [kind |-> "raise", exc |-> exc]
FlightSearchErrorResponse(error) == [kind |-> "failure", error |-> error]

\* pydantic validation of the model's fields: three required str, two Optional[str]
IsStr(v) == v.t = "str"
IsOptionalStr(v) == v.t = "str" \/ v.t = "null"

FlightInfoResponse(fn, origin, destination, departure_time, arrival_time) ==
    IF /\ IsStr(fn) /\ IsStr(origin) /\ IsStr(destination)
       /\ IsOptionalStr(departure_time) /\ IsOptionalStr(arrival_time)
    THEN [kind |-> "result", flight_number |-> fn, origin |-> origin,
          destination |-> destination, departure_time |-> departure_time,
          arrival_time |-> arrival_time]
    ELSE Raise("ValidationError")

(***************************************************************************)
(* search_flight                                                           *)
(***************************************************************************)
FLIGHTAWARE_BASE_URL == "https://aeroapi.flightaware.com/aeroapi/flights/"
HTTP_OK == 200

\* faulty variant: `if api_key is None`
KeyMissingNoneOnly(key) == key.t = "null"

\* `not api_key`: the variable is unset (os.getenv gives None) or empty
KeyMissing(key) == key.t = "null" \/ key.s = ""

\* the GET of line 65: url and headers
GetRequest(key, fn) ==
    [url |-> FLIGHTAWARE_BASE_URL \o fn, headers |-> [x_apikey |-> key.s]]

\* faulty variant: only the 4xx and 5xx codes are errors
IsErrorStatusFrom400(code) == code >= 400

\* response.status_code != 200
IsErrorStatus(code) == code # HTTP_OK

\* f"FlightAware API error: {response.status_code} - {response.text}"
ApiErrorMessage(resp) ==
    "FlightAware API error: " \o IntToStr(resp.status_code) \o " - " \o resp.text

\* faulty variant: `'flights' not in data` alone
NoFlightsKeyOnly(data) ==
    CASE data.t = "obj" -> IF "flights" \notin DOMAIN data.o THEN "yes" ELSE "no"
      [] OTHER -> "TypeError"

\* 'flights' not in data or not data['flights'], for the values it is defined on;
\* "TypeError" where Python raises it
NoFlights(data) ==
    CASE data.t = "obj" ->
            IF "flights" \notin DOMAIN data.o THEN "yes"
            ELSE IF ~Truthy(data.o["flights"]) THEN "yes" ELSE "no"
      [] data.t = "list" ->
            IF \A i \in 1..Len(data.l) : data.l[i] # JStr("flights") THEN "yes"
            ELSE "TypeError"
      [] data.t = "str" ->
            IF ~Contains(data.s, "flights") THEN "yes" ELSE "TypeError"
      [] OTHER -> "TypeError"

\* data['flights'][0]
FirstFlight(flights) ==
    CASE flights.t = "list" ->
            IF Len(flights.l) = 0 THEN Raise("IndexError") ELSE flights.l[1]
      [] flights.t = "str" ->
            IF flights.s = "" THEN Raise("IndexError") ELSE JStr(SubSeq(flights.s, 1, 1))
      [] flights.t = "obj" -> Raise("KeyError")
      [] OTHER -> Raise("TypeError")

\* flight_info.get(outer, {}).get(inner)
NestedGet(flight_info, outer, inner) ==
    LET mid == DictGet(flight_info, outer, EmptyObj)
    IN  IF mid.t # "obj" THEN Raise("AttributeError") ELSE DictGet(mid, inner, JNull)

IsRaise(v) == "kind" \in DOMAIN v

\* lines 85-99: extraction from the first flight and construction of the result
Extract(flights) ==
    LET flight_info == FirstFlight(flights)
    IN  IF IsRaise(flight_info) THEN flight_info
        ELSE IF flight_info.t # "obj" THEN Raise("AttributeError")
        ELSE
          LET fn == DictGet(flight_info, "ident", JNull)
              origin == NestedGet(flight_info, "origin", "code")
              destination == NestedGet(flight_info, "destination", "code")
              departure_time == NestedGet(flight_info, "actual_departure_time", "date")
              arrival_time == NestedGet(flight_info, "actual_arrival_time", "date")
          IN  IF \/ IsRaise(origin) \/ IsRaise(destination)
                 \/ IsRaise(departure_time) \/ IsRaise(arrival_time)
              THEN Raise("AttributeError")
              ELSE FlightInfoResponse(fn, origin, destination, departure_time, arrival_time)

\* lines 65-99: the call from the completion of client.get to its end
AfterGet(resp) ==
    IF resp.kind = "raise" THEN Raise(resp.exc)
    ELSE IF IsErrorStatus(resp.status_code)
    THEN FlightSearchErrorResponse(ApiErrorMessage(resp))
    ELSE LET data == resp.json
         IN  IF data.t = "invalid" THEN Raise("JSONDecodeError")
             ELSE LET nf == NoFlights(data)
                  IN  IF nf = "TypeError" THEN Raise("TypeError")
                      ELSE IF nf = "yes"
                      THEN FlightSearchErrorResponse("No flight information found")
                      ELSE Extract(data.o["flights"])

(***************************************************************************)
(* The provider: what client.get can produce                               *)
(***************************************************************************)
HttpResponse(code, text, json) ==
    [kind |-> "response", status_code |-> code, text |-> text, json |-> json]

Code(c) == JObj([code |-> JStr(c)])
Date(d) == JObj([date |-> JStr(d)])

\* the record of the specification's example: every key present, no arrival date
FullFlight ==
    [ident |-> JStr("UAL123"), origin |-> Code("SFO"), destination |-> Code("ORD"),
     actual_departure_time |-> Date("2024-01-01T10:00Z"),
     actual_arrival_time |-> EmptyObj]

Without(rec, keys) == [k \in DOMAIN rec \ keys |-> rec[k]]

Flights(first) == JObj([flights |-> JList(<<JObj(first)>>)])

ErrorStatuses == {301, 404, 500}

ErrorResponses ==
    {HttpResponse(code, "Not Found", Invalid) : code \in ErrorStatuses}
    \cup {HttpResponse(404, "{\"title\":\"Not Found\"}", JObj([title |-> JStr("Not Found")])),
          HttpResponse(500, "", Invalid)}

EmptyResponses ==
    {HttpResponse(HTTP_OK, "{}", EmptyObj),
     HttpResponse(HTTP_OK, "{\"flights\":[]}", JObj([flights |-> JList(<<>>)])),
     HttpResponse(HTTP_OK, "{\"flights\":null}", JObj([flights |-> JNull])),
     HttpResponse(HTTP_OK, "{\"links\":null,\"num_pages\":1}",
                  JObj([links |-> JNull, num_pages |-> JNum(1)]))}

FlightResponses ==
    {HttpResponse(HTTP_OK,
        "{\"flights\":[{\"ident\":\"UAL123\",\"origin\":{\"code\":\"SFO\"},\"destination\":{\"code\":\"ORD\"},\"actual_departure_time\":{\"date\":\"2024-01-01T10:00Z\"},\"actual_arrival_time\":{}}]}",
        Flights(FullFlight)),
     HttpResponse(HTTP_OK,
        "{\"flights\":[{\"ident\":\"UAL123\",\"origin\":{\"code\":\"SFO\"},\"destination\":{\"code\":\"ORD\"},\"actual_departure_time\":{\"date\":\"2024-01-01T10:00Z\"},\"actual_arrival_time\":{\"date\":\"2024-01-01T14:00Z\"}},{\"ident\":\"UAL9\"}]}",
        JObj([flights |-> JList(<<
            JObj([FullFlight EXCEPT !.actual_arrival_time = Date("2024-01-01T14:00Z")]),
            JObj([ident |-> JStr("UAL9")])>>)])),
     HttpResponse(HTTP_OK,
        "{\"flights\":[{\"ident\":\"UAL123\",\"origin\":{\"code\":\"SFO\"},\"destination\":{\"code\":\"ORD\"}}]}",
        Flights(Without(FullFlight, {"actual_departure_time", "actual_arrival_time"}))),
     HttpResponse(HTTP_OK,
        "{\"flights\":[{\"origin\":{\"code\":\"SFO\"},\"destination\":{\"code\":\"ORD\"},\"actual_departure_time\":{\"date\":\"2024-01-01T10:00Z\"},\"actual_arrival_time\":{}}]}",
        Flights(Without(FullFlight, {"ident"}))),
     HttpResponse(HTTP_OK,
        "{\"flights\":[{\"ident\":\"UAL123\",\"destination\":{\"code\":\"ORD\"},\"actual_departure_time\":{\"date\":\"2024-01-01T10:00Z\"},\"actual_arrival_time\":{}}]}",
        Flights(Without(FullFlight, {"origin"}))),
     HttpResponse(HTTP_OK,
        "{\"flights\":[{\"ident\":\"UAL123\",\"origin\":{\"code\":\"SFO\"},\"destination\":{},\"actual_departure_time\":{\"date\":\"2024-01-01T10:00Z\"},\"actual_arrival_time\":{}}]}",
        Flights([FullFlight EXCEPT !.destination = EmptyObj])),
     HttpResponse(HTTP_OK, "{\"flights\":[{}]}",
        JObj([flights |-> JList(<<EmptyObj>>)]))}

\* bodies of status 200 that have not the documented shape
MalformedResponses ==
    {HttpResponse(HTTP_OK, "<html>gateway</html>", Invalid),
     HttpResponse(HTTP_OK, "null", JNull),
     HttpResponse(HTTP_OK, "[]", JList(<<>>)),
     HttpResponse(HTTP_OK,
        "{\"flights\":[{\"ident\":\"UAL123\",\"origin\":null,\"destination\":{\"code\":\"ORD\"},\"actual_departure_time\":{\"date\":\"2024-01-01T10:00Z\"},\"actual_arrival_time\":{}}]}",
        Flights([FullFlight EXCEPT !.origin = JNull])),
     HttpResponse(HTTP_OK,
        "{\"flights\":[{\"ident\":\"UAL123\",\"origin\":{\"code\":\"SFO\"},\"destination\":{\"code\":\"ORD\"},\"actual_departure_time\":\"2024-01-01T10:00Z\",\"actual_arrival_time\":{}}]}",
        Flights([FullFlight EXCEPT !.actual_departure_time = JStr("2024-01-01T10:00Z")])),
     HttpResponse(HTTP_OK, "{\"flights\":[\"UAL123\"]}",
        JObj([flights |-> JList(<<JStr("UAL123")>>)])),
     HttpResponse(HTTP_OK, "{\"flights\":{\"UAL123\":{}}}",
        JObj([flights |-> JObj([UAL123 |-> EmptyObj])]))}

\* client.get raising instead of returning (a transport failure)
TransportErrors == {Raise("ConnectError")}

ProviderResponses ==
    ErrorResponses \cup EmptyResponses \cup FlightResponses
    \cup MalformedResponses \cup TransportErrors

\* values of the environment variable: unset, empty, set
ApiKeys == {JNull, JStr(""), JStr("KEY")}

\* flight numbers of the tool's callers (FlightSearchRequest.flight_number: str)
FlightNumbers == {"UAL123", ""}

(***************************************************************************)
(* State machine of the service                                            *)
(***************************************************************************)
NoRequest == [url |-> "", headers |-> [x_apikey |-> ""]]

\* lines 49-65: from the call to the suspension in client.get
Call(c, fn) ==
    /\ pc[c] = "idle"
    /\ request' = [request EXCEPT ![c] = fn]
    /\ IF KeyMissing(api_key)
       THEN /\ outcome' = [outcome EXCEPT ![c] =
                              FlightSearchErrorResponse("API key is missing")]
            /\ pc' = [pc EXCEPT ![c] = "done"]
            /\ UNCHANGED <<sent, gets>>
       ELSE /\ sent' = [sent EXCEPT ![c] = GetRequest(api_key, fn)]
            /\ gets' = [gets EXCEPT ![c] = @ + 1]
            /\ pc' = [pc EXCEPT ![c] = "await_get"]
            /\ UNCHANGED outcome
    /\ UNCHANGED <<api_key, response>>
    /\ UNCHANGED gvars

\* faulty variant: one more GET after a status that is not 200
GetReturnsRetry(c, resp) ==
    /\ pc[c] = "await_get"
    /\ response' = [response EXCEPT ![c] = resp]
    /\ IF resp.kind = "response" /\ resp.status_code # HTTP_OK /\ gets[c] < 2
       THEN /\ gets' = [gets EXCEPT ![c] = @ + 1]
            /\ UNCHANGED <<pc, outcome>>
       ELSE /\ outcome' = [outcome EXCEPT ![c] = AfterGet(resp)]
            /\ pc' = [pc EXCEPT ![c] = "done"]
            /\ UNCHANGED gets
    /\ UNCHANGED <<api_key, request, sent>>
    /\ UNCHANGED gvars

\* faulty variant: `response` kept in a module-level variable that every call reads
GetReturnsShared(c, resp) ==
    /\ pc[c] = "await_get"
    /\ response' = [d \in Calls |-> resp]
    /\ outcome' = [outcome EXCEPT ![c] = AfterGet(resp)]
    /\ pc' = [pc EXCEPT ![c] = "done"]
    /\ UNCHANGED <<api_key, request, sent, gets>>
    /\ UNCHANGED gvars

\* lines 65-99: client.get completes with resp and the call runs to its end
GetReturns(c, resp) ==
    /\ pc[c] = "await_get"
    /\ response' = [response EXCEPT ![c] = resp]
    /\ outcome' = [outcome EXCEPT ![c] = AfterGet(resp)]
    /\ pc' = [pc EXCEPT ![c] = "done"]
    /\ UNCHANGED <<api_key, request, sent, gets>>
    /\ UNCHANGED gvars

ServiceNext ==
    \/ \E c \in Calls, fn \in FlightNumbers : Call(c, fn)
    \/ \E c \in Calls, resp \in ProviderResponses : GetReturns(c, resp)

(***************************************************************************)
(* gradio_search_flight                                                    *)
(***************************************************************************)
Text(s) == [kind |-> "text", text |-> s]
Exc(type, msg) == [kind |-> "raise", exc |-> type, msg |-> msg]

SERVICE_URL == "http://127.0.0.1:8000/search_flight"

\* str(v) inside an f-string
PyStr(v) ==
    CASE v.t = "null" -> "None"
      [] v.t = "str" -> v.s
      [] v.t = "num" -> IntToStr(v.n)

\* response.raise_for_status() raises on the 4xx and 5xx codes
IsBadStatus(code) == code >= 400 /\ code < 600

ReasonPhrase(code) ==
    CASE code = 404 -> "Not Found"
      [] code = 500 -> "Internal Server Error"
      [] OTHER -> ""

\* the httpx.HTTPStatusError of raise_for_status
HTTPStatusError(code) ==
    Exc("HTTPStatusError",
        (IF code < 500 THEN "Client error '" ELSE "Server error '")
        \o IntToStr(code) \o " " \o ReasonPhrase(code)
        \o "' for url '" \o SERVICE_URL \o "'")

\* the subclasses of httpx.RequestError among the exceptions of the model
IsRequestError(e) == e.exc \in {"ConnectError", "ReadTimeout"}

\* the subclasses of Exception among the exceptions of the model
IsException(e) ==
    e.exc \in {"ConnectError", "ReadTimeout", "HTTPStatusError", "JSONDecodeError",
               "TypeError", "AttributeError"}

\* faulty variant: the `except Exception` clause is missing
CaughtRequestErrorOnly(e) ==
    IF IsRequestError(e)
    THEN Text("An error occurred while requesting flight information: " \o e.msg)
    ELSE e

\* lines 143-146: the two except clauses
Caught(e) ==
    IF IsRequestError(e)
    THEN Text("An error occurred while requesting flight information: " \o e.msg)
    ELSE IF IsException(e)
    THEN Text("An unexpected error occurred: " \o e.msg)
    ELSE e

\* flight_info.get(key, 'N/A') inside the f-string
Shown(flight_info, key) ==
    IF key \in DOMAIN flight_info.o THEN PyStr(flight_info.o[key]) ELSE "N/A"

\* lines 134-140
OutputString(flight_info) ==
    "Flight Number: " \o Shown(flight_info, "flight_number") \o "\n"
    \o "Origin: " \o Shown(flight_info, "origin") \o "\n"
    \o "Destination: " \o Shown(flight_info, "destination") \o "\n"
    \o "Departure Time: " \o Shown(flight_info, "departure_time") \o "\n"
    \o "Arrival Time: " \o Shown(flight_info, "arrival_time")

\* "error" in data: "yes", "no", or the exception Python raises
HasError(data) ==
    CASE data.t = "obj" -> IF "error" \in DOMAIN data.o THEN "yes" ELSE "no"
      [] data.t = "list" ->
            IF \E i \in 1..Len(data.l) : data.l[i] = JStr("error") THEN "yes" ELSE "no"
      [] data.t = "str" -> IF Contains(data.s, "error") THEN "yes" ELSE "no"
      [] data.t = "null" -> "raise"

\* lines 128-141: from the decoding of the body to the return
Format(data) ==
    IF data.t = "invalid"
    THEN Exc("JSONDecodeError", "Expecting value: line 1 column 1 (char 0)")
    ELSE LET he == HasError(data)
         IN  IF he = "raise"
             THEN Exc("TypeError", "argument of type 'NoneType' is not iterable")
             ELSE IF he = "yes"
             THEN CASE data.t = "obj" -> Text("Error: " \o PyStr(data.o["error"]))
                    [] data.t = "list" ->
                        Exc("TypeError", "list indices must be integers or slices, not str")
                    [] data.t = "str" ->
                        Exc("TypeError", "string indices must be integers, not 'str'")
             ELSE CASE data.t = "obj" -> Text(OutputString(data))
                    [] data.t = "list" ->
                        Exc("AttributeError", "'list' object has no attribute 'get'")
                    [] data.t = "str" ->
                        Exc("AttributeError", "'str' object has no attribute 'get'")

\* lines 123-146: the try block entered with what client.post produced
AfterPost(post) ==
    LET r == IF post.kind = "raise" THEN post
             ELSE IF IsBadStatus(post.status_code) THEN HTTPStatusError(post.status_code)
             ELSE Format(post.json)
    IN  IF r.kind = "raise" THEN Caught(r) ELSE r

(***************************************************************************)
(* The Lookup Service as the form sees it: what client.post can produce    *)
(***************************************************************************)
\* the JSON of a pydantic model: every declared field, None as null
ModelDump(o) ==
    IF o.kind = "failure" THEN JObj([error |-> JStr(o.error)])
    ELSE JObj([flight_number |-> o.flight_number, origin |-> o.origin,
               destination |-> o.destination, departure_time |-> o.departure_time,
               arrival_time |-> o.arrival_time])

\* the reply to the POST for a call that ended with outcome o
ServerReply(o) ==
    IF o.kind = "raise"
    THEN [kind |-> "response", status_code |-> 500, json |-> Invalid]
    ELSE [kind |-> "response", status_code |-> HTTP_OK, json |-> ModelDump(o)]

ServiceOutcomes ==
    {AfterGet(r) : r \in ProviderResponses}
    \cup {FlightSearchErrorResponse("API key is missing")}

PostOutcomes ==
    {ServerReply(o) : o \in ServiceOutcomes}
    \cup {Exc("ConnectError", "All connection attempts failed"),
          Exc("ReadTimeout", ""),
          [kind |-> "response", status_code |-> 404, json |-> Invalid],
          [kind |-> "response", status_code |-> HTTP_OK, json |-> Invalid],
          [kind |-> "response", status_code |-> HTTP_OK, json |-> JNull],
          [kind |-> "response", status_code |-> HTTP_OK, json |-> JList(<<>>)],
          [kind |-> "response", status_code |-> HTTP_OK,
           json |-> JList(<<JStr("error")>>)],
          [kind |-> "response", status_code |-> HTTP_OK,
           json |-> JStr("upstream error")],
          [kind |-> "response", status_code |-> HTTP_OK,
           json |-> JObj([error |-> JNull])],
          [kind |-> "response", status_code |-> HTTP_OK,
           json |-> JObj([flight_number |-> JStr("UAL123"), origin |-> JStr("SFO")])],
          [kind |-> "response", status_code |-> HTTP_OK, json |-> EmptyObj]}

\* faulty variant: `if flight_number is None`
IsEmptyInputNoneOnly(fn) == FALSE

\* `not flight_number`
IsEmptyInput(fn) == fn = ""

\* what the form's text box can hold
FormInputs == {"", " ", "UAL123"}

\* lines 117-125: from the call to the suspension in client.post
Submit(g, fn) ==
    /\ g_pc[g] = "idle"
    /\ flight_number' = [flight_number EXCEPT ![g] = fn]
    /\ IF IsEmptyInput(fn)
       THEN /\ g_result' = [g_result EXCEPT ![g] = Text("Please enter a flight number.")]
            /\ g_pc' = [g_pc EXCEPT ![g] = "done"]
            /\ UNCHANGED posts
       ELSE /\ posts' = [posts EXCEPT ![g] = @ + 1]
            /\ g_pc' = [g_pc EXCEPT ![g] = "await_post"]
            /\ UNCHANGED g_result
    /\ UNCHANGED g_response
    /\ UNCHANGED svars

\* lines 125-146: client.post completes with post and the call runs to its end
PostReturns(g, post) ==
    /\ g_pc[g] = "await_post"
    /\ g_response' = [g_response EXCEPT ![g] = post]
    /\ g_result' = [g_result EXCEPT ![g] = AfterPost(post)]
    /\ g_pc' = [g_pc EXCEPT ![g] = "done"]
    /\ UNCHANGED <<flight_number, posts>>
    /\ UNCHANGED svars

ClientNext ==
    \/ \E g \in Clients, fn \in FormInputs : Submit(g, fn)
    \/ \E g \in Clients, post \in PostOutcomes : PostReturns(g, post)

Init ==
    /\ api_key \in ApiKeys
    /\ pc = [c \in Calls |-> "idle"]
    /\ request = [c \in Calls |-> ""]
    /\ sent = [c \in Calls |-> NoRequest]
    /\ gets = [c \in Calls |-> 0]
    /\ response = [c \in Calls |-> None]
    /\ outcome = [c \in Calls |-> None]
    /\ g_pc = [g \in Clients |-> "idle"]
    /\ flight_number = [g \in Clients |-> ""]
    /\ posts = [g \in Clients |-> 0]
    /\ g_response = [g \in Clients |-> None]
    /\ g_result = [g \in Clients |-> None]

Next == ServiceNext \/ ClientNext

Spec == Init /\ [][Next]_vars
ServiceSpec == Init /\ [][ServiceNext]_vars
ClientSpec == Init /\ [][ClientNext]_vars

(***************************************************************************)
(* Properties of search_flight                                             *)
(***************************************************************************)
Done(c) == pc[c] = "done"
NotConfigured == api_key \in {JNull, JStr("")}
Answered(c) == Done(c) /\ response[c].kind = "response"
Ok200(c) == Answered(c) /\ response[c].status_code = 200

\* the mapped keys of a flight record are present with the documented type, or missing
LeafOk(obj, key) == key \in DOMAIN obj.o => obj.o[key].t = "str"
NestedOk(fi, outer, inner) ==
    outer \in DOMAIN fi.o => (fi.o[outer].t = "obj" /\ LeafOk(fi.o[outer], inner))
DocumentedFlight(fi) ==
    /\ fi.t = "obj"
    /\ LeafOk(fi, "ident")
    /\ NestedOk(fi, "origin", "code")
    /\ NestedOk(fi, "destination", "code")
    /\ NestedOk(fi, "actual_departure_time", "date")
    /\ NestedOk(fi, "actual_arrival_time", "date")

HasFlightList(data) ==
    /\ data.t = "obj"
    /\ "flights" \in DOMAIN data.o
    /\ data.o["flights"].t = "list"
    /\ Len(data.o["flights"].l) > 0

\* the value the specification maps a key to: the value, or null when missing
MappedTop(fi, key) == IF key \in DOMAIN fi.o THEN fi.o[key] ELSE JNull
MappedNested(fi, outer, inner) ==
    IF outer \in DOMAIN fi.o THEN MappedTop(fi.o[outer], inner) ELSE JNull

\* C1: status 200 and a non-empty flights list give a LookupResult whose five
\* fields are the mapped fields of the first element, a missing key (ident,
\* origin.code and destination.code included) becoming null and not a failure.
C1_ResultFromFirstFlight ==
    \A c \in Calls :
        (/\ Ok200(c)
         /\ HasFlightList(response[c].json)
         /\ DocumentedFlight(response[c].json.o["flights"].l[1]))
        => LET fi == response[c].json.o["flights"].l[1]
           IN  /\ outcome[c].kind = "result"
               /\ outcome[c].flight_number = MappedTop(fi, "ident")
               /\ outcome[c].origin = MappedNested(fi, "origin", "code")
               /\ outcome[c].destination = MappedNested(fi, "destination", "code")
               /\ outcome[c].departure_time
                      = MappedNested(fi, "actual_departure_time", "date")
               /\ outcome[c].arrival_time
                      = MappedNested(fi, "actual_arrival_time", "date")

\* a body of the documented shape: an object whose flights, when there are
\* any, is a list starting with a documented flight record
DocumentedBody(data) ==
    /\ data.t = "obj"
    /\ "flights" \in DOMAIN data.o =>
         /\ data.o["flights"].t = "list"
         /\ Len(data.o["flights"].l) > 0 => DocumentedFlight(data.o["flights"].l[1])

\* C2: a finished call has returned a LookupResult or a LookupFailure, never
\* raised: with or without credential, for every status code, and for every
\* body that is a JSON object (stated here on the objects of the documented
\* shape, a first record with missing nested fields included).
C2_NeverRaises ==
    \A c \in Calls :
        (/\ Done(c)
         /\ \/ response[c] = None
            \/ /\ response[c].kind = "response"
               /\ \/ response[c].status_code # 200
                  \/ DocumentedBody(response[c].json))
        => outcome[c].kind \in {"result", "failure"}

\* C3: with no credential configured the call returns the failure "API key is
\* missing" for every flight number, and no GET is issued at any point.
C3_MissingKey ==
    \A c \in Calls :
        NotConfigured =>
            /\ gets[c] = 0
            /\ sent[c] = NoRequest
            /\ pc[c] # "await_get"
            /\ Done(c) => outcome[c] = [kind |-> "failure", error |-> "API key is missing"]

C3_Witness ==
    /\ NotConfigured
    /\ \E c \in Calls : Done(c) /\ request[c] = "UAL123"
    /\ \E c \in Calls : Done(c) /\ request[c] = ""

\* C4: a status other than 200 gives a failure whose message contains the
\* status code and the raw body text, whatever the body, JSON or not.
C4_ErrorStatus ==
    \A c \in Calls :
        (Answered(c) /\ response[c].status_code # 200)
        => /\ outcome[c].kind = "failure"
           /\ Contains(outcome[c].error, IntToStr(response[c].status_code))
           /\ Contains(outcome[c].error, response[c].text)

C4_Witness ==
    /\ \E c \in Calls :
        /\ Answered(c) /\ response[c].status_code = 301
        /\ response[c].json = Invalid /\ response[c].text = "Not Found"
        /\ outcome[c].kind = "failure"
    /\ \E c \in Calls :
        /\ Answered(c) /\ response[c].status_code = 404
        /\ response[c].json # Invalid

\* C5: status 200 with a payload that has no flights key, or an empty flights
\* list, gives the failure "No flight information found"; no first element
\* is read (the call does not end in an IndexError or KeyError).
C5_NoFlights ==
    \A c \in Calls :
        (/\ Ok200(c)
         /\ response[c].json.t = "obj"
         /\ \/ "flights" \notin DOMAIN response[c].json.o
            \/ response[c].json.o["flights"] = JList(<<>>))
        => outcome[c] = [kind |-> "failure", error |-> "No flight information found"]

C5_Witness ==
    /\ \E c \in Calls :
        /\ Ok200(c) /\ response[c].json.t = "obj"
        /\ "flights" \notin DOMAIN response[c].json.o
    /\ \E c \in Calls :
        /\ Ok200(c) /\ response[c].json.t = "obj"
        /\ "flights" \in DOMAIN response[c].json.o
        /\ response[c].json.o["flights"] = JList(<<>>)

\* C9 as stated: every finished call has performed exactly one GET.
C9_ExactlyOneGet == \A c \in Calls : Done(c) => gets[c] = 1

\* C9 amended: a call performs at most one GET, exactly one when a credential
\* is configured and none when it is not; no second GET follows a status
\* other than 200 or an empty result.
C9_AtMostOneGet ==
    \A c \in Calls :
        /\ gets[c] <= 1
        /\ pc[c] = "await_get" => gets[c] = 1
        /\ Done(c) => gets[c] = (IF NotConfigured THEN 0 ELSE 1)

C9_Witness ==
    /\ \E c \in Calls :
        Answered(c) /\ response[c].status_code # 200 /\ gets[c] = 1
    /\ \E c \in Calls :
        /\ Ok200(c) /\ gets[c] = 1
        /\ outcome[c] = [kind |-> "failure", error |-> "No flight information found"]

\* the locals of one call
Locals(c) == <<request[c], sent[c], gets[c], response[c], outcome[c]>>

\* C10: under every interleaving of concurrent calls the outcome of a call is
\* the one it has alone, a function of its flight number, the credential
\* and the response to its own GET; a step of one call leaves the state of
\* every other call as it was.
C10_Isolation ==
    /\ [](\A c \in Calls :
            /\ pc[c] # "idle" /\ ~NotConfigured =>
                 sent[c] = [url |-> FLIGHTAWARE_BASE_URL \o request[c],
                            headers |-> [x_apikey |-> api_key.s]]
            /\ Done(c) =>
                 outcome[c] = IF NotConfigured
                              THEN [kind |-> "failure", error |-> "API key is missing"]
                              ELSE AfterGet(response[c]))
    /\ [][\A c \in Calls : pc'[c] = pc[c] => Locals(c)' = Locals(c)]_vars

C10_Witness ==
    /\ \A c \in Calls : Done(c)
    /\ \E c, d \in Calls :
        /\ outcome[c].kind = "result"
        /\ outcome[d].kind = "failure"
        /\ response[d].kind = "response"

(***************************************************************************)
(* Properties of gradio_search_flight                                      *)
(***************************************************************************)
GDone(g) == g_pc[g] = "done"
Decoded(g) ==
    /\ GDone(g)
    /\ g_response[g].kind = "response"
    /\ g_response[g].status_code = 200
    /\ g_response[g].json.t = "obj"

\* the lookup was successful: the decoded body is a LookupResult, not a failure
Successful(g) == Decoded(g) /\ "error" \notin DOMAIN g_response[g].json.o

\* the text the specification shows for a field: "N/A" when null or missing
ShownOrNA(result, key) ==
    IF key \notin DOMAIN result.o \/ result.o[key].t = "null"
    THEN "N/A"
    ELSE result.o[key].s

\* C6: for a successful lookup the text is the five labelled lines in order,
\* each value the field of the LookupResult, and "N/A" for exactly the fields
\* that are null or missing (a null departure or arrival time reads "N/A").
C6_FiveLines ==
    \A g \in Clients :
        Successful(g) =>
            LET result == g_response[g].json
            IN  g_result[g] =
                  [kind |-> "text",
                   text |-> "Flight Number: " \o ShownOrNA(result, "flight_number")
                            \o "\nOrigin: " \o ShownOrNA(result, "origin")
                            \o "\nDestination: " \o ShownOrNA(result, "destination")
                            \o "\nDeparture Time: " \o ShownOrNA(result, "departure_time")
                            \o "\nArrival Time: " \o ShownOrNA(result, "arrival_time")]

\* C7: an empty flight number gives exactly "Please enter a flight number."
\* and no POST is issued.
C7_EmptyInput ==
    \A g \in Clients :
        (g_pc[g] # "idle" /\ flight_number[g] = "") =>
            /\ GDone(g)
            /\ posts[g] = 0
            /\ g_response[g] = None
            /\ g_result[g] = [kind |-> "text", text |-> "Please enter a flight number."]

C7_Witness ==
    /\ \E g \in Clients : GDone(g) /\ flight_number[g] = ""
    /\ \E g \in Clients : GDone(g) /\ flight_number[g] = " " /\ posts[g] = 1

\* the description of the exception a POST outcome leads to, "" when none
Description(post) ==
    IF post.kind = "raise" THEN post.msg
    ELSE IF post.status_code >= 400
    THEN "'" \o IntToStr(post.status_code) \o " "
    ELSE IF post.json = Invalid THEN "Expecting value"
    ELSE ""

\* C8: for a non-empty flight number and every outcome of the POST the call
\* returns a text and raises nothing; after a failure of the call the text
\* embeds the description of the exception; when the decoded body has an
\* error field the text is "Error: " followed by its message.
C8_AlwaysText ==
    \A g \in Clients :
        (GDone(g) /\ flight_number[g] # "") =>
            /\ g_result[g].kind = "text"
            /\ Contains(g_result[g].text, Description(g_response[g]))
            /\ g_response[g].kind = "raise" =>
                 g_result[g].text = "An error occurred while requesting flight information: "
                                    \o g_response[g].msg
            /\ (Decoded(g) /\ "error" \in DOMAIN g_response[g].json.o) =>
                 g_result[g].text =
                    "Error: " \o (IF g_response[g].json.o["error"].t = "str"
                                  THEN g_response[g].json.o["error"].s
                                  ELSE "None")

C8_Witness ==
    /\ \E g \in Clients :
        /\ GDone(g) /\ g_response[g].kind = "response"
        /\ g_response[g].status_code = 404
        /\ g_result[g].kind = "text"
    /\ \E g \in Clients :
        /\ Decoded(g)
        /\ g_response[g].json = JObj([error |-> JStr("API key is missing")])
        /\ g_result[g].kind = "text"

====
